---------------------------- MODULE Spec2Model ----------------------------
(***************************************************************************)
(* Model of the playback controller of src/src/main.rs: the MusicPlayer    *)
(* struct and its methods (the control thread), the mpsc channel of        *)
(* PlayerMessage values, and the audio playback thread spawned in          *)
(* MusicPlayer::new (the worker) with the one rodio sink it holds, and     *)
(* the views main draws from the library (search and the groupings).       *)
(*                                                                         *)
(* Conventions.                                                            *)
(*  - Option<T> is a sequence of length 0 (None) or 1 (Some).              *)
(*  - A path is the sequence of its components.                            *)
(*  - f32 volumes are counted in steps of 1/VolOne, so that 1.0 is VolOne  *)
(*    (the program's key step of 0.05 is the granularity VolOne = 20).     *)
(*    Rounding of f32 sums is not modelled; NaN is never passed by main.   *)
(*  - usize is the machine word; UsizeMax stands for usize::MAX.           *)
(*  - The default audio output is assumed to open (main.rs:156, 168).      *)
(***************************************************************************)
EXTENDS Integers, Sequences, FiniteSets, TLC

(***************************************************************************)
(* Bounds of the model.                                                    *)
(***************************************************************************)
MaxChan == 2     \* commands buffered in the channel at once
MaxQueue == 2    \* entries in the playback queue
MaxDirs == 2     \* entries in music_dirs
MaxSongs == 2    \* entries in songs
VolOne == 2      \* volume steps between 0.0 and 1.0
MaxBelow == 1    \* steps previous() takes down from usize::MAX
MaxInput == 2    \* characters typed into search_input

(***************************************************************************)
(* usize::MAX (main.rs:116, current_index: usize).  TLC's integers are     *)
(* 32 bits wide; the value only has to exceed every index of the model.    *)
(***************************************************************************)
UsizeMax == 2147483647

(***************************************************************************)
(* The file system the program walks: directory "a" holds one audio file   *)
(* and one text file, its subdirectory "a/b" holds one audio file.         *)
(* FsEntries lists the files in WalkDir's order.                           *)
(***************************************************************************)
DirA == <<"a">>
DirB == <<"a", "b">>
DirMissing == <<"m">>
ExistingDirs == {DirA, DirB}

FsEntries ==
    << [path |-> <<"a", "x">>, ext |-> "mp3"],
       [path |-> <<"a", "n">>, ext |-> "txt"],
       [path |-> <<"a", "b", "y">>, ext |-> "flac"] >>

\* Path::starts_with: component-wise prefix.
StartsWith(p, base) ==
    /\ Len(base) <= Len(p)
    /\ \A i \in 1..Len(base) : p[i] = base[i]

RECURSIVE SelectPaths(_, _)
\* The paths of the entries of es that lie under dir and carry an audio
\* extension, in order (the loop body of the walk).
SelectPaths(es, dir) ==
    IF es = <<>> THEN <<>>
    ELSE LET e == Head(es)
             rest == SelectPaths(Tail(es), dir)
         IN IF StartsWith(e.path, dir) /\ e.ext \in {"mp3", "ogg", "flac"}
            THEN <<e.path>> \o rest
            ELSE rest

\* The songs one walk of dir pushes, in walk order.
Walk(dir) == SelectPaths(FsEntries, dir)

(***************************************************************************)
(* Song::new.  A string is the sequence of its character codes (ASCII).    *)
(* The two audio files carry no tag: "a/x" is named "B - S1.mp3" and       *)
(* "a/b/y" is named "A - s2.flac", so that the artist and the title come   *)
(* from the file name and the album and the genre are the defaults,        *)
(* written "U" for "Unknown Album" and "G" for "Unknown Genre".            *)
(***************************************************************************)
Meta(path) ==
    IF path = <<"a", "x">>
    THEN [title |-> <<83, 49>>, artist |-> <<66>>,
          album |-> <<85>>, genre |-> <<71>>]
    ELSE [title |-> <<115, 50>>, artist |-> <<65>>,
          album |-> <<85>>, genre |-> <<71>>]

(***************************************************************************)
(* PlayerMessage.  Only the variants the control thread sends are built;   *)
(* the worker ignores the others (its `_ => {}` arm).                      *)
(***************************************************************************)
NoPath == <<>>
MsgPlay(p) == [type |-> "Play", path |-> p, vol |-> 0]
MsgStop == [type |-> "Stop", path |-> NoPath, vol |-> 0]
MsgSetVolume(v) == [type |-> "SetVolume", path |-> NoPath, vol |-> v]
MsgQuit == [type |-> "Quit", path |-> NoPath, vol |-> 0]

None == <<>>
Some(x) == <<x>>

VARIABLES
    songs,            \* MusicPlayer.songs: the paths of the songs, in order
    current_index,    \* MusicPlayer.current_index
    is_playing,       \* MusicPlayer.is_playing
    music_dirs,       \* MusicPlayer.music_dirs
    volume,           \* MusicPlayer.volume, in steps of 1/VolOne
    queue,            \* MusicPlayer.queue
    channel,          \* the mpsc channel: commands sent and not yet received
    ctl,              \* control thread: "running", "quit" or "panicked"
    overflow_checks,  \* the build: TRUE panics on overflow, FALSE wraps
    wpc,              \* worker: "recv", "open", "exited" or "killed"
    wpath,            \* worker: the path of the Play being processed
    sink,             \* worker: Option<Sink>
    current_volume,   \* worker: current_volume
    streams,          \* output device: number of sinks producing sound
    view_mode,        \* MusicPlayer.view_mode
    search_mode,      \* App.search_mode
    search_input,     \* App.search_input
    content,          \* the items the last draw put in the main list
    last_cmd,         \* history: the last Play or Stop sent, as an Option
    last              \* history: the operation of the last step

vars == <<songs, current_index, is_playing, music_dirs, volume, queue,
          channel, ctl, overflow_checks, wpc, wpath, sink, current_volume,
          streams, view_mode, search_mode, search_input, content,
          last_cmd, last>>

player == <<songs, current_index, is_playing, music_dirs, volume, queue>>
worker == <<wpc, wpath, sink, current_volume, streams>>
\* What the key handlers of the views and the draw closure work on.
app == <<view_mode, search_mode, search_input, content>>
\* What no method of MusicPlayer touches: the worker's locals, the build
\* and the state of the views.
beyond == <<overflow_checks, wpc, wpath, sink, current_volume, streams, app>>

\* The record kept in `last`: the operation, its argument and how it ended:
\* "ok", "err" (an Err was returned), "panic", or for next() "queue" (the
\* cursor came from the queue).  The argument of next and previous is the
\* cursor before the call, that of the worker's Play is the number of
\* streams sounding before it; it is 0 for an operation without one.
Did(op, arg, res) == [op |-> op, arg |-> arg, res |-> res]

(***************************************************************************)
(* MusicPlayer::new and the start of main.                                 *)
(***************************************************************************)
Init ==
    /\ \E d \in ExistingDirs :
          /\ music_dirs = <<d>>
          /\ songs = Walk(d)
    /\ current_index = 0
    /\ is_playing = FALSE
    /\ volume = VolOne
    /\ queue = <<>>
    /\ channel = <<>>
    /\ ctl = "running"
    /\ overflow_checks \in BOOLEAN
    /\ wpc = "recv"
    /\ wpath = NoPath
    /\ sink = None
    /\ current_volume = VolOne
    /\ streams = 0
    /\ view_mode = "AllSongs"
    /\ search_mode = FALSE
    /\ search_input = <<>>
    /\ content = <<>>
    /\ last_cmd = None
    /\ last = Did("new", 0, "ok")

(***************************************************************************)
(* The control thread: the methods of MusicPlayer.                         *)
(***************************************************************************)
\* Room in the modelled channel (the mpsc channel itself is unbounded).
CanSend == Len(channel) < MaxChan

\* songs.get(i): the index is 0-based.
HasSong(s, i) == i < Len(s)
SongAt(s, i) == s[i + 1]

\* The control thread panics: it unwinds and sends nothing more.
Panic(op, arg) ==
    /\ ctl' = "panicked"
    /\ last' = Did(op, arg, "panic")
    /\ UNCHANGED <<player, channel, last_cmd, beyond>>

\* The body of play_current on the library s with the cursor at i.
PlayCurrentBody(s, i) ==
    IF HasSong(s, i)
    THEN /\ CanSend
         /\ channel' = Append(channel, MsgPlay(SongAt(s, i)))
         /\ last_cmd' = Some(MsgPlay(SongAt(s, i)))
         /\ is_playing' = TRUE
    ELSE UNCHANGED <<channel, last_cmd, is_playing>>

\* if self.is_playing { self.play_current(); }
ReplayIfPlaying(s, i) ==
    IF is_playing
    THEN PlayCurrentBody(s, i)
    ELSE UNCHANGED <<channel, last_cmd, is_playing>>

PlayCurrent ==
    /\ ctl = "running"
    /\ PlayCurrentBody(songs, current_index)
    /\ last' = Did("play_current", 0, "ok")
    /\ UNCHANGED <<songs, current_index, music_dirs, volume, queue, ctl, beyond>>

\* A stop() that clears the flag and sends nothing.
StopWithoutSend ==
    /\ ctl = "running"
    /\ is_playing' = FALSE
    /\ last' = Did("stop", 0, "ok")
    /\ UNCHANGED <<songs, current_index, music_dirs, volume, queue, channel,
                   last_cmd, ctl, beyond>>

Stop ==
    /\ ctl = "running"
    /\ CanSend
    /\ channel' = Append(channel, MsgStop)
    /\ last_cmd' = Some(MsgStop)
    /\ is_playing' = FALSE
    /\ last' = Did("stop", 0, "ok")
    /\ UNCHANGED <<songs, current_index, music_dirs, volume, queue, ctl, beyond>>

\* self.current_index + 1 on usize, where it does not overflow-panic.
WrapAdd1(i) == IF i = UsizeMax THEN 0 ELSE i + 1

\* (self.current_index + 1) % self.songs.len(), for n > 0.
NextIndex(i, n) == WrapAdd1(i) % n

\* A previous() that stays at the first song instead of wrapping.
PrevIndexNoWrap(i, n) == IF i > 0 THEN i - 1 ELSE 0

\* The two branches of previous(), where they do not panic.
PrevIndex(i, n) ==
    IF i > 0 THEN i - 1
    ELSE IF n = 0 THEN UsizeMax     \* 0 - 1 wraps in a build without checks
    ELSE n - 1

\* Whether next() panics: the addition overflows in a checked build, or
\* the remainder is taken by zero.
NextPanics ==
    /\ queue = <<>>
    /\ \/ current_index = UsizeMax /\ overflow_checks
       \/ Len(songs) = 0

\* A pop at the wrong end of the queue.
PopBack(q) == [front |-> q[Len(q)], rest |-> SubSeq(q, 1, Len(q) - 1)]

\* VecDeque::pop_front on a queue that is not empty.
PopFront(q) == [front |-> Head(q), rest |-> Tail(q)]

Next_ ==
    /\ ctl = "running"
    /\ IF NextPanics
       THEN Panic("next", current_index)
       ELSE /\ IF queue # <<>>
               THEN /\ current_index' = PopFront(queue).front
                    /\ queue' = PopFront(queue).rest
                    /\ last' = Did("next", current_index, "queue")
               ELSE /\ current_index' = NextIndex(current_index, Len(songs))
                    /\ queue' = queue
                    /\ last' = Did("next", current_index, "ok")
            /\ ReplayIfPlaying(songs, current_index')
            /\ UNCHANGED <<songs, music_dirs, volume, ctl, beyond>>

\* Whether previous() panics: 0 - 1 in a build with overflow checks.
PreviousPanics ==
    current_index = 0 /\ Len(songs) = 0 /\ overflow_checks

Previous ==
    /\ ctl = "running"
    /\ current_index <= MaxSongs \/ current_index > UsizeMax - MaxBelow
    /\ IF PreviousPanics
       THEN Panic("previous", current_index)
       ELSE /\ current_index' = PrevIndex(current_index, Len(songs))
            /\ ReplayIfPlaying(songs, current_index')
            /\ last' = Did("previous", current_index, "ok")
            /\ UNCHANGED <<songs, music_dirs, volume, queue, ctl, beyond>>

(***************************************************************************)
(* add_directory.  DirTable numbers the directories a command can name.    *)
(* The walk either completes, or an entry of it is an error after `done`   *)
(* songs were pushed: `entry?` returns with those songs kept and the       *)
(* directory not recorded.                                                 *)
(***************************************************************************)
DirTable == <<DirA, DirB, DirMissing>>

AddDirectory(k, fails, done) ==
    LET new_dir == DirTable[k]
        found == Walk(new_dir)
    IN /\ ctl = "running"
       /\ IF new_dir \notin ExistingDirs
          THEN /\ last' = Did("add_directory", k, "err")
               /\ UNCHANGED <<songs, music_dirs>>
          ELSE /\ done \in 0..Len(found)
               /\ Len(songs) + done <= MaxSongs
               /\ IF fails
                  THEN /\ songs' = songs \o SubSeq(found, 1, done)
                       /\ music_dirs' = music_dirs
                       /\ last' = Did("add_directory", k, "err")
                  ELSE /\ done = Len(found)
                       /\ Len(music_dirs) < MaxDirs
                       /\ songs' = songs \o found
                       /\ music_dirs' = Append(music_dirs, new_dir)
                       /\ last' = Did("add_directory", k, "ok")
       /\ UNCHANGED <<current_index, is_playing, volume, queue, channel,
                      last_cmd, ctl, beyond>>

RECURSIVE RetainNested(_, _)
\* A retain that drops only the songs lying directly in removed_dir and
\* keeps those of its subdirectories.
RetainNested(s, removed_dir) ==
    IF s = <<>> THEN <<>>
    ELSE IF SubSeq(Head(s), 1, Len(Head(s)) - 1) = removed_dir
         THEN RetainNested(Tail(s), removed_dir)
         ELSE <<Head(s)>> \o RetainNested(Tail(s), removed_dir)

RECURSIVE Retain(_, _)
\* songs.retain(|song| !song.path.starts_with(removed_dir))
Retain(s, removed_dir) ==
    IF s = <<>> THEN <<>>
    ELSE IF StartsWith(Head(s), removed_dir)
         THEN Retain(Tail(s), removed_dir)
         ELSE <<Head(s)>> \o Retain(Tail(s), removed_dir)

\* Vec::remove(index), 0-based.
RemoveAt(s, index) ==
    SubSeq(s, 1, index) \o SubSeq(s, index + 2, Len(s))

\* The cursor after a removal that left n songs.
ClampIndex(i, n) ==
    IF i >= n THEN (IF n = 0 THEN 0 ELSE n - 1) ELSE i

\* A removal that takes an index past the end for the last directory.
RemoveDirectorySaturating(index) ==
    LET at == IF index >= Len(music_dirs) THEN Len(music_dirs) - 1 ELSE index
    IN /\ ctl = "running"
       /\ IF music_dirs = <<>>
          THEN /\ last' = Did("remove_directory", index, "err")
               /\ UNCHANGED <<songs, music_dirs, current_index>>
          ELSE /\ songs' = Retain(songs, music_dirs[at + 1])
               /\ music_dirs' = SubSeq(music_dirs, 1, at)
                                 \o SubSeq(music_dirs, at + 2, Len(music_dirs))
               /\ current_index' =
                     IF current_index >= Len(songs')
                     THEN (IF Len(songs') = 0 THEN 0 ELSE Len(songs') - 1)
                     ELSE current_index
               /\ last' = Did("remove_directory", index,
                              IF index >= Len(music_dirs) THEN "err" ELSE "ok")
       /\ UNCHANGED <<is_playing, volume, queue, channel, last_cmd, ctl,
                      beyond>>

RemoveDirectory(index) ==
    /\ ctl = "running"
    /\ IF index >= Len(music_dirs)
       THEN /\ last' = Did("remove_directory", index, "err")
            /\ UNCHANGED <<songs, music_dirs, current_index>>
       ELSE /\ songs' = Retain(songs, music_dirs[index + 1])
            /\ music_dirs' = RemoveAt(music_dirs, index)
            /\ current_index' = ClampIndex(current_index, Len(songs'))
            /\ last' = Did("remove_directory", index, "ok")
    /\ UNCHANGED <<is_playing, volume, queue, channel, last_cmd, ctl, beyond>>

\* A clamp that forgets the upper end.
ClampVolumeBelow(v) == IF v < 0 THEN 0 ELSE v

\* (self.volume + delta).clamp(0.0, 1.0)
ClampVolume(v) == IF v < 0 THEN 0 ELSE IF v > VolOne THEN VolOne ELSE v

\* A set_volume that tells the worker only of a volume that changed.
SetVolumeIfChanged(delta) ==
    /\ ctl = "running"
    /\ CanSend
    /\ volume' = ClampVolume(volume + delta)
    /\ channel' = IF volume' = volume THEN channel
                  ELSE Append(channel, MsgSetVolume(volume'))
    /\ last' = Did("set_volume", delta, "ok")
    /\ UNCHANGED <<songs, current_index, is_playing, music_dirs, queue,
                   last_cmd, ctl, beyond>>

SetVolume(delta) ==
    /\ ctl = "running"
    /\ CanSend
    /\ volume' = ClampVolume(volume + delta)
    /\ channel' = Append(channel, MsgSetVolume(volume'))
    /\ last' = Did("set_volume", delta, "ok")
    /\ UNCHANGED <<songs, current_index, is_playing, music_dirs, queue,
                   last_cmd, ctl, beyond>>

\* A shuffle that draws every position independently, so that a song may
\* come out twice and another not at all.
ShuffledWithRepeats(s) ==
    { [i \in 1..Len(s) |-> s[f[i]]] : f \in [1..Len(s) -> 1..Len(s)] }

\* self.songs.shuffle(&mut rng): any order of the same elements may come
\* out (s rearranged by a bijection of its positions).
Shuffled(s) ==
    { [i \in 1..Len(s) |-> s[f[i]]] :
        f \in { g \in [1..Len(s) -> 1..Len(s)] :
                  \A i, j \in 1..Len(s) : g[i] = g[j] => i = j } }

Shuffle ==
    /\ ctl = "running"
    /\ songs' \in Shuffled(songs)
    /\ current_index' = 0
    /\ ReplayIfPlaying(songs', current_index')
    /\ last' = Did("shuffle", 0, "ok")
    /\ UNCHANGED <<music_dirs, volume, queue, ctl, beyond>>

\* A guard that is off by one: it lets the position len through.
QueueAcceptsLen(index, s) == index <= Len(s)

\* The guard of add_to_queue.
QueueAccepts(index, s) == index < Len(s)

AddToQueue(index) ==
    /\ ctl = "running"
    /\ IF QueueAccepts(index, songs)
       THEN /\ Len(queue) < MaxQueue
            /\ queue' = Append(queue, index)
       ELSE queue' = queue
    /\ last' = Did("add_to_queue", index, "ok")
    /\ UNCHANGED <<songs, current_index, is_playing, music_dirs, volume,
                   channel, last_cmd, ctl, beyond>>

\* main, key 'q': send Quit and leave the event loop.
Quit ==
    /\ ctl = "running"
    /\ CanSend
    /\ channel' = Append(channel, MsgQuit)
    /\ ctl' = "quit"
    /\ last' = Did("quit", 0, "ok")
    /\ UNCHANGED <<player, last_cmd, beyond>>

(***************************************************************************)
(* MusicPlayer::search and the views of the draw closure.  An item of a    *)
(* list is the sequence of the strings it shows.                           *)
(***************************************************************************)
\* str::to_lowercase, on ASCII.
ToLower(str) ==
    [i \in 1..Len(str) |-> IF str[i] \in 65..90 THEN str[i] + 32 ELSE str[i]]

\* str::contains: needle occurs in hay as a substring.
Contains(hay, needle) ==
    \E i \in 0..(Len(hay) - Len(needle)) :
        SubSeq(hay, i + 1, i + Len(needle)) = needle

\* The filter closure of search.
Matches(path, query) ==
    \/ Contains(ToLower(Meta(path).title), ToLower(query))
    \/ Contains(ToLower(Meta(path).artist), ToLower(query))
    \/ Contains(ToLower(Meta(path).album), ToLower(query))

\* search(query) on the library s: the positions (0-based) of the songs
\* that match, in library order; the song of a pair is the one there.
Search(s, query) ==
    LET Hit(i) == Matches(s[i + 1], query)
    IN SelectSeq([i \in 1..Len(s) |-> i - 1], Hit)

RECURSIVE StrCmp(_, _)
\* Ord for str: -1, 0 or 1 as a is below, equal to or above b.
StrCmp(a, b) ==
    IF a = <<>> /\ b = <<>> THEN 0
    ELSE IF a = <<>> THEN 0 - 1
    ELSE IF b = <<>> THEN 1
    ELSE IF Head(a) < Head(b) THEN 0 - 1
    ELSE IF Head(a) > Head(b) THEN 1
    ELSE StrCmp(Tail(a), Tail(b))

RECURSIVE ItemCmp(_, _)
\* Ord for tuples of str of one length: the first field that differs.
ItemCmp(a, b) ==
    IF a = <<>> THEN 0
    ELSE IF StrCmp(Head(a), Head(b)) # 0 THEN StrCmp(Head(a), Head(b))
    ELSE ItemCmp(Tail(a), Tail(b))

RECURSIVE Insert(_, _)
\* x put into the sorted list, behind the items equal to it.
Insert(x, sorted) ==
    IF sorted = <<>> THEN <<x>>
    ELSE IF ItemCmp(x, Head(sorted)) < 0 THEN <<x>> \o sorted
    ELSE <<Head(sorted)>> \o Insert(x, Tail(sorted))

RECURSIVE Sort(_)
\* slice::sort: the items in ascending order.
Sort(items) ==
    IF items = <<>> THEN <<>>
    ELSE Insert(items[Len(items)], Sort(SubSeq(items, 1, Len(items) - 1)))

RECURSIVE Dedup(_)
\* Vec::dedup: of each run of equal consecutive items the first is kept.
Dedup(items) ==
    IF Len(items) < 2 THEN items
    ELSE IF items[1] = items[2] THEN Dedup(Tail(items))
    ELSE <<items[1]>> \o Dedup(Tail(items))

\* The items of the views AllSongs, Artists (no artist selected), Albums
\* and Genres.
AllSongsItems(s) == [i \in 1..Len(s) |-> <<Meta(s[i]).title>>]
ArtistsItems(s) == Dedup(Sort([i \in 1..Len(s) |-> <<Meta(s[i]).artist>>]))
AlbumsItems(s) ==
    Dedup(Sort([i \in 1..Len(s) |-> <<Meta(s[i]).album, Meta(s[i]).artist>>]))
GenresItems(s) == Dedup(Sort([i \in 1..Len(s) |-> <<Meta(s[i]).genre>>]))

\* The items of the queue, in the Queue view and in the queue panel, where
\* every entry is a position in s.
QueueItems(s, q) ==
    [i \in 1..Len(q) |-> <<Meta(s[q[i] + 1]).artist, Meta(s[q[i] + 1]).title>>]

\* A Search view that calls search whatever the input is.
SearchItemsUnguarded(s, input) ==
    [i \in 1..Len(Search(s, input)) |->
        <<Meta(s[Search(s, input)[i] + 1]).artist,
          Meta(s[Search(s, input)[i] + 1]).title>>]

\* The items of the Search view.
SearchItems(s, input) ==
    IF input # <<>>
    THEN LET found == Search(s, input)
         IN [i \in 1..Len(found) |->
                <<Meta(s[found[i] + 1]).artist, Meta(s[found[i] + 1]).title>>]
    ELSE <<>>

\* let content = match app.player.view_mode { ... }
MainItems ==
    CASE view_mode = "AllSongs" -> AllSongsItems(songs)
      [] view_mode = "Artists" -> ArtistsItems(songs)
      [] view_mode = "Albums" -> AlbumsItems(songs)
      [] view_mode = "Genres" -> GenresItems(songs)
      [] view_mode = "Queue" -> QueueItems(songs, queue)
      [] view_mode = "Search" -> SearchItems(songs, search_input)

\* One pass of terminal.draw.  The queue panel indexes songs with every
\* entry of the queue, in every view: an entry past the end panics.
Draw ==
    /\ ctl = "running"
    /\ IF \E i \in 1..Len(queue) : queue[i] >= Len(songs)
       THEN Panic("draw", 0)
       ELSE /\ content' = MainItems
            /\ last' = Did("draw", 0, "ok")
            /\ UNCHANGED <<player, channel, ctl, last_cmd, overflow_checks,
                           worker, view_mode, search_mode, search_input>>

(***************************************************************************)
(* The key handlers of the views (outside command mode).  No artist is     *)
(* ever selected in this model.                                            *)
(***************************************************************************)
\* The characters typed into the search input: "S" and "1".
Typed == {83, 49}

NextView(v) ==
    CASE v = "AllSongs" -> "Artists"
      [] v = "Artists" -> "Albums"
      [] v = "Albums" -> "Genres"
      [] v = "Genres" -> "Queue"
      [] v = "Queue" -> "Search"
      [] v = "Search" -> "AllSongs"

KeyTab ==
    /\ ctl = "running"
    /\ ~search_mode
    /\ view_mode' = NextView(view_mode)
    /\ last' = Did("key_tab", 0, "ok")
    /\ UNCHANGED <<player, channel, ctl, last_cmd, overflow_checks, worker,
                   search_mode, search_input, content>>

KeySlash ==
    /\ ctl = "running"
    /\ ~search_mode
    /\ search_mode' = TRUE
    /\ view_mode' = "Search"
    /\ last' = Did("key_slash", 0, "ok")
    /\ UNCHANGED <<player, channel, ctl, last_cmd, overflow_checks, worker,
                   search_input, content>>

KeyEsc ==
    /\ ctl = "running"
    /\ IF search_mode
       THEN /\ search_mode' = FALSE
            /\ UNCHANGED <<search_input, view_mode>>
       ELSE IF view_mode = "Search"
       THEN /\ search_input' = <<>>
            /\ view_mode' = "AllSongs"
            /\ UNCHANGED search_mode
       ELSE UNCHANGED <<search_mode, search_input, view_mode>>
    /\ last' = Did("key_esc", 0, "ok")
    /\ UNCHANGED <<player, channel, ctl, last_cmd, overflow_checks, worker,
                   content>>

KeyChar(c) ==
    /\ ctl = "running"
    /\ search_mode
    /\ Len(search_input) < MaxInput
    /\ search_input' = Append(search_input, c)
    /\ last' = Did("key_char", c, "ok")
    /\ UNCHANGED <<player, channel, ctl, last_cmd, overflow_checks, worker,
                   view_mode, search_mode, content>>

KeyBackspace ==
    /\ ctl = "running"
    /\ search_mode
    /\ search_input' = SubSeq(search_input, 1, Len(search_input) - 1)
    /\ last' = Did("key_backspace", 0, "ok")
    /\ UNCHANGED <<player, channel, ctl, last_cmd, overflow_checks, worker,
                   view_mode, search_mode, content>>

(***************************************************************************)
(* The audio playback thread.  A sink is [path, volume, state] with state  *)
(* "playing", "stopped" (Sink::stop was called) or "ended" (its source ran *)
(* out).  Processing Play takes two steps, so that the control thread can  *)
(* run while the file is opened and decoded.                               *)
(***************************************************************************)
Sounding(sk) == sk # None /\ sk[1].state = "playing"

\* A Stop arm that takes the sink out of the Option as the Play arm does.
StoppedAndTaken(sk) == None

\* Sink::stop on the sink held, if any.
Stopped(sk) ==
    IF sk = None THEN None ELSE Some([sk[1] EXCEPT !.state = "stopped"])

\* A SetVolume arm that only remembers the volume and leaves the sink.
WithVolumeKept(sk, vol) == sk

\* Sink::set_volume on the sink held, if any.
WithVolume(sk, vol) ==
    IF sk = None THEN None ELSE Some([sk[1] EXCEPT !.volume = vol])

\* A take that forgets to stop the sink it replaces (the stream is detached).
TakeAndDetach(sk, n) == [sink |-> None, streams |-> n]

\* The sink and the number of sounding streams after
\* `if let Some(s) = sink.take() { s.stop(); }`.
TakeAndStop(sk, n) ==
    [sink |-> None, streams |-> IF Sounding(sk) THEN n - 1 ELSE n]

\* A receive that hands out the newest command instead of the oldest.
ReceivedNewest(ch) ==
    [msg |-> ch[Len(ch)], rest |-> SubSeq(ch, 1, Len(ch) - 1)]

\* The message rx.recv() returns, and what stays buffered.
Received(ch) == [msg |-> Head(ch), rest |-> Tail(ch)]

\* A receive loop whose Quit arm falls through like the arms of `_ => {}`.
WorkerRecvIgnoresQuit ==
    /\ wpc = "recv"
    /\ channel # <<>>
    /\ LET msg == Head(channel)
       IN /\ channel' = Tail(channel)
          /\ last' = Did("worker_" \o msg.type, streams, "ok")
          /\ CASE msg.type = "Play" ->
                    /\ sink' = None
                    /\ streams' = IF Sounding(sink) THEN streams - 1
                                  ELSE streams
                    /\ wpath' = msg.path
                    /\ wpc' = "open"
                    /\ UNCHANGED current_volume
               [] msg.type = "SetVolume" ->
                    /\ current_volume' = msg.vol
                    /\ sink' = WithVolume(sink, msg.vol)
                    /\ UNCHANGED <<wpc, wpath, streams>>
               [] msg.type = "Stop" ->
                    /\ sink' = Stopped(sink)
                    /\ streams' = IF Sounding(sink) THEN streams - 1
                                  ELSE streams
                    /\ UNCHANGED <<wpc, wpath, current_volume>>
               [] msg.type = "Quit" ->
                    UNCHANGED <<wpc, wpath, sink, streams, current_volume>>
    /\ UNCHANGED <<player, ctl, overflow_checks, app, last_cmd>>

WorkerRecv ==
    /\ wpc = "recv"
    /\ channel # <<>>
    /\ LET r == Received(channel)
           msg == r.msg
       IN /\ channel' = r.rest
          /\ last' = Did("worker_" \o msg.type, streams, "ok")
          /\ CASE msg.type = "Play" ->
                    /\ sink' = TakeAndStop(sink, streams).sink
                    /\ streams' = TakeAndStop(sink, streams).streams
                    /\ wpath' = msg.path
                    /\ wpc' = "open"
                    /\ UNCHANGED current_volume
               [] msg.type = "SetVolume" ->
                    /\ current_volume' = msg.vol
                    /\ sink' = WithVolume(sink, msg.vol)
                    /\ UNCHANGED <<wpc, wpath, streams>>
               [] msg.type = "Stop" ->
                    /\ sink' = Stopped(sink)
                    /\ streams' = IF Sounding(sink) THEN streams - 1 ELSE streams
                    /\ UNCHANGED <<wpc, wpath, current_volume>>
               [] msg.type = "Quit" ->
                    \* break: the closure returns and drops sink and _stream
                    /\ wpc' = "exited"
                    /\ sink' = None
                    /\ streams' = 0
                    /\ UNCHANGED <<wpath, current_volume>>
    /\ UNCHANGED <<player, ctl, overflow_checks, app, last_cmd>>

\* A new sink left at rodio's default volume of 1.0.
NewSinkFullVolume(path, vol) ==
    [path |-> path, volume |-> VolOne, state |-> "playing"]

\* The sink Play builds when the file opens and decodes.
NewSink(path, vol) == [path |-> path, volume |-> vol, state |-> "playing"]

\* A Play arm that unwraps the file and the decoder: a failure ends the
\* thread.
WorkerOpenUnwraps(decodes) ==
    /\ wpc = "open"
    /\ IF decodes
       THEN /\ sink' = Some(NewSink(wpath, current_volume))
            /\ streams' = streams + 1
            /\ last' = Did("worker_open", 0, "ok")
            /\ wpc' = "recv"
       ELSE /\ UNCHANGED <<sink, streams>>
            /\ last' = Did("worker_open", 0, "err")
            /\ wpc' = "exited"
    /\ wpath' = NoPath
    /\ UNCHANGED <<player, channel, ctl, overflow_checks, app, last_cmd,
                   current_volume>>

\* The rest of the Play arm: File::open and Decoder::new succeed or not.
WorkerOpen(decodes) ==
    /\ wpc = "open"
    /\ IF decodes
       THEN /\ sink' = Some(NewSink(wpath, current_volume))
            /\ streams' = streams + 1
            /\ last' = Did("worker_open", 0, "ok")
       ELSE /\ UNCHANGED <<sink, streams>>
            /\ last' = Did("worker_open", 0, "err")
    /\ wpc' = "recv"
    /\ wpath' = NoPath
    /\ UNCHANGED <<player, channel, ctl, overflow_checks, app, last_cmd,
                   current_volume>>

\* The source appended to the sink runs out: the track is over.
SinkEnds ==
    /\ wpc \in {"recv", "open"}
    /\ Sounding(sink)
    /\ sink' = Some([sink[1] EXCEPT !.state = "ended"])
    /\ streams' = streams - 1
    /\ last' = Did("sink_ends", 0, "ok")
    /\ UNCHANGED <<player, channel, ctl, overflow_checks, app, last_cmd, wpc,
                   wpath, current_volume>>

\* main returns (after Quit) or unwinds (after a panic): the process ends
\* and takes the worker with it, wherever it is.
ProcessExit ==
    /\ ctl \in {"quit", "panicked"}
    /\ wpc \in {"recv", "open"}
    /\ wpc' = "killed"
    /\ streams' = 0
    /\ last' = Did("process_exit", 0, "ok")
    /\ UNCHANGED <<player, channel, ctl, overflow_checks, app, last_cmd, wpath,
                   sink, current_volume>>

(***************************************************************************)
(* The system.                                                             *)
(***************************************************************************)
\* The deltas set_volume is called with: every step count that keeps the
\* sum in range and some that leave it on either side.
Deltas == (0 - VolOne - 1)..(VolOne + 1)

\* The positions commands name: valid ones and some past the end.
Positions == 0..MaxSongs

\* A step of the control thread: one method of MusicPlayer, or 'q'.
Library ==
    \/ \E k \in 1..Len(DirTable), fails \in BOOLEAN, done \in 0..MaxSongs :
          AddDirectory(k, fails, done)
    \/ \E index \in 0..MaxDirs : RemoveDirectory(index)
    \/ \E index \in Positions : AddToQueue(index)

Transport ==
    \/ PlayCurrent
    \/ Stop
    \/ Next_
    \/ Previous
    \/ Shuffle

Volume == \E delta \in Deltas : SetVolume(delta)

\* A step of the audio playback thread or of its device.
Audio ==
    \/ WorkerRecv
    \/ \E decodes \in BOOLEAN : WorkerOpen(decodes)
    \/ SinkEnds

\* A key of the views, or a pass of the draw closure.
Browse ==
    \/ KeyTab
    \/ KeySlash
    \/ KeyEsc
    \/ \E c \in Typed : KeyChar(c)
    \/ KeyBackspace
    \/ Draw

Next ==
    Library \/ Transport \/ Volume \/ Quit \/ Audio \/ ProcessExit \/ Browse

\* The whole program.
Spec == Init /\ [][Next]_vars

\* The control thread running ahead of the worker: the channel then holds
\* every command sent, in order.
NextPlayer == Library \/ Transport

SpecPlayer == Init /\ [][NextPlayer]_vars

\* The views over a library that directories are added to and removed
\* from, with nothing queued and nothing played.
NextQuery ==
    \/ \E k \in 1..Len(DirTable), fails \in BOOLEAN, done \in 0..MaxSongs :
          AddDirectory(k, fails, done)
    \/ \E index \in 0..MaxDirs : RemoveDirectory(index)
    \/ Browse

SpecQuery == Init /\ [][NextQuery]_vars

\* The two threads over the library as scanned at start.
NextAudio == Transport \/ Volume \/ Quit \/ Audio \/ ProcessExit

SpecAudio == Init /\ [][NextAudio]_vars

\* The same with a fair scheduler for the spawned thread: while the worker
\* can take a command, or finish the Play it is at, it eventually does.
SpecAudioFair ==
    /\ SpecAudio
    /\ WF_vars(WorkerRecv)
    /\ WF_vars(\E decodes \in BOOLEAN : WorkerOpen(decodes))

(***************************************************************************)
(* Properties.                                                             *)
(***************************************************************************)
Min(a, b) == IF a < b THEN a ELSE b
Max(a, b) == IF a > b THEN a ELSE b

\* C1: the audio worker never has two output streams sounding at once: at
\* most one stream sounds, it is the one of the sink the worker holds, and
\* while a Play is between its take-and-stop and the start of the new sink
\* the worker holds no sink and nothing sounds.
C1_AtMostOneStream ==
    /\ streams \in {0, 1}
    /\ streams = 1 => Sounding(sink)
    /\ wpc = "open" => sink = None /\ streams = 0

\* C1 witness: a Play that found a stream sounding has been taken in hand,
\* and its own sink is about to be created.
C1_Witness ==
    /\ last = Did("worker_Play", 1, "ok")
    /\ wpc = "open"

\* C3: the worker takes the commands in the order they were sent, one at a
\* time: the channel changes only by a send at its back or by the worker
\* taking its front; the worker takes a command only when it is done with
\* the one before (never in the middle of a Play), and the command it then
\* executes is the oldest one buffered; and a send waits for nothing the
\* worker does: with room in the modelled buffer, stop() and set_volume()
\* can run whatever the worker is at.
C3_FifoOneAtATime ==
    /\ [] ((ctl = "running" /\ CanSend)
              => (ENABLED Stop /\ ENABLED SetVolume(0)))
    /\ [][ /\ Len(channel') > Len(channel) =>
                /\ Len(channel') = Len(channel) + 1
                /\ SubSeq(channel', 1, Len(channel)) = channel
                /\ UNCHANGED worker
           /\ Len(channel') < Len(channel) =>
                /\ wpc = "recv"
                /\ channel' = Tail(channel)
                /\ last'.op = "worker_" \o Head(channel).type
                /\ Head(channel).type = "Play" =>
                      wpc' = "open" /\ wpath' = Head(channel).path
                /\ Head(channel).type = "SetVolume" =>
                      current_volume' = Head(channel).vol
                /\ Head(channel).type = "Stop" => ~Sounding(sink')
                /\ Head(channel).type = "Quit" => wpc' = "exited"
           /\ Len(channel') = Len(channel) => channel' = channel
         ]_vars

\* C3 witness: a Stop sent after a Play waits in the channel, behind another
\* command, while the worker is still in the middle of that Play.
C3_Witness ==
    /\ wpc = "open"
    /\ Len(channel) = 2
    /\ channel[1].type = "Stop"
    /\ channel[2].type = "SetVolume"

\* C8: the volume stays within [0.0, 1.0], and every set_volume(delta)
\* leaves it at the old volume plus delta, cut off at 0.0 and at 1.0.
C8_VolumeClamped ==
    /\ [] (0 <= volume /\ volume <= VolOne)
    /\ [][ last'.op = "set_volume" =>
              volume' = Max(0, Min(VolOne, volume + last'.arg)) ]_vars

\* C8 witness: an increase at full volume has left the volume at 1.0, and
\* the worker has not yet taken the command.
C8_Witness ==
    /\ last.op = "set_volume"
    /\ last.arg > 0
    /\ volume = VolOne
    /\ Len(channel) = 2
    /\ channel[1] = MsgSetVolume(VolOne)
    /\ channel[2] = MsgSetVolume(VolOne)

\* C9: every set_volume(delta) appends exactly one SetVolume command, which
\* carries the new volume, playing or not and changed or not, and leaves the
\* cursor, the playing flag, the queue and the library as they were.
C9_SetVolumeAlwaysSends ==
    [][ last'.op = "set_volume" =>
           /\ channel' = Append(channel, MsgSetVolume(volume'))
           /\ UNCHANGED <<songs, music_dirs, current_index, is_playing,
                          queue, ctl>>
      ]_vars

\* C9 witness: set_volume was called while playing with a delta that left
\* the volume where it was, and its command is the newest in the channel.
C9_Witness ==
    /\ last.op = "set_volume"
    /\ last.arg = 0
    /\ is_playing
    /\ channel # <<>>
    /\ channel[Len(channel)] = MsgSetVolume(volume)

\* C2: whenever is_playing holds, the last Play or Stop the control thread
\* sent is the Play of the song the cursor is at in the library as it is
\* now.
C2_PlayingMeansCurrentPlaySent ==
    is_playing =>
        /\ HasSong(songs, current_index)
        /\ last_cmd = Some(MsgPlay(SongAt(songs, current_index)))

\* C4: on an empty library (and not playing), play_current(), next() and
\* previous() return without a panic, send nothing and leave is_playing
\* false.
C4_EmptyLibraryIsSafe ==
    [][ ( /\ Len(songs) = 0
          /\ ~is_playing
          /\ last'.op \in {"play_current", "next", "previous"} )
        => ( /\ last'.res # "panic"
             /\ ctl' = "running"
             /\ channel' = channel
             /\ ~is_playing' )
      ]_vars

\* C5: on a library that is not empty, with the queue empty and the cursor
\* at a valid position i, previous() right after next() and next() right
\* after previous() bring the cursor back to i; next() from the last
\* position gives 0 and previous() from 0 gives the last position.
C5_NextPreviousInverse ==
    [][ /\ ( /\ last = Did("next", last.arg, "ok")
             /\ last.arg < Len(songs)
             /\ last'.op = "previous" )
           => (last'.res = "ok" /\ current_index' = last.arg)
        /\ ( /\ last = Did("previous", last.arg, "ok")
             /\ last.arg < Len(songs)
             /\ queue = <<>>
             /\ last'.op = "next" )
           => (last'.res = "ok" /\ current_index' = last.arg)
        /\ ( /\ Len(songs) > 0
             /\ queue = <<>>
             /\ current_index = Len(songs) - 1
             /\ last'.op = "next" )
           => current_index' = 0
        /\ ( /\ Len(songs) > 0
             /\ current_index = 0
             /\ last'.op = "previous" )
           => current_index' = Len(songs) - 1
      ]_vars

\* C5 witness: on a library of two songs with the queue empty, previous()
\* was called at position 0 and the cursor is at the last position.
C5_Witness ==
    /\ Len(songs) = 2
    /\ queue = <<>>
    /\ last = Did("previous", 0, "ok")
    /\ current_index = 1

\* C6: next() on a queue that is not empty takes exactly its front entry,
\* makes it the cursor whatever the cursor was, and leaves the other
\* entries in their order.
C6_NextTakesQueueFront ==
    [][ (queue # <<>> /\ last'.op = "next") =>
           /\ last'.res = "queue"
           /\ current_index' = Head(queue)
           /\ queue' = Tail(queue)
           /\ UNCHANGED <<songs, music_dirs, volume>>
      ]_vars

\* C6 witness: next() took the cursor from the queue, to a position that
\* is not the one after the old cursor, and an entry is still queued.
C6_Witness ==
    /\ last.op = "next"
    /\ last.res = "queue"
    /\ Len(songs) = 2
    /\ last.arg = 0
    /\ current_index = 0
    /\ queue = <<1>>

\* C7: add_to_queue(position) with position >= len(songs) changes nothing
\* and is no error; with a valid position it appends the position at the
\* back of the queue and changes nothing else.
C7_AddToQueueFrame ==
    [][ last'.op = "add_to_queue" =>
           /\ last'.res = "ok"
           /\ queue' = IF last'.arg >= Len(songs) THEN queue
                       ELSE Append(queue, last'.arg)
           /\ UNCHANGED <<songs, music_dirs, current_index, is_playing,
                          volume, channel, ctl>>
      ]_vars

\* C7 witness: add_to_queue was called with the position len(songs) on a
\* library and a queue that are not empty.
C7_Witness ==
    /\ last.op = "add_to_queue"
    /\ last.arg = Len(songs)
    /\ Len(songs) > 0
    /\ queue # <<>>

\* The number of times x occurs in the sequence s.
Count(s, x) == Cardinality({i \in 1..Len(s) : s[i] = x})

\* C10: shuffle() leaves the same songs, each as often as before, sets the
\* cursor to 0, and sends the Play of the song now first exactly when the
\* player was playing and the library is not empty (and nothing otherwise).
C10_ShufflePermutes ==
    [][ last'.op = "shuffle" =>
           /\ Len(songs') = Len(songs)
           /\ \A i \in 1..Len(songs) :
                 Count(songs', songs[i]) = Count(songs, songs[i])
           /\ current_index' = 0
           /\ channel' = IF is_playing /\ Len(songs) > 0
                         THEN Append(channel, MsgPlay(songs'[1]))
                         ELSE channel
           /\ UNCHANGED <<music_dirs, volume, queue, is_playing>>
      ]_vars

\* C10 witness: shuffle() ran while playing, the two songs are in the other
\* order than the walk found them in, and the Play of the first is the
\* newest command.
C10_Witness ==
    /\ last.op = "shuffle"
    /\ is_playing
    /\ songs = <<Walk(DirA)[2], Walk(DirA)[1]>>
    /\ current_index = 0
    /\ channel # <<>>
    /\ channel[Len(channel)] = MsgPlay(songs[1])

\* C11: whenever the library is not empty the cursor is a valid position in
\* it, whatever next, previous, add_to_queue, shuffle, add_directory and
\* remove_directory calls came before.
C11_CursorInRange ==
    (ctl = "running" /\ Len(songs) > 0) => current_index < Len(songs)

\* C12: every song's path lies under at least one directory of music_dirs,
\* whatever add_directory calls (completed, rejected, or failed part-way
\* through the walk) and remove_directory calls came before.
C12_SongsUnderListedDirs ==
    \A i \in 1..Len(songs) :
        \E j \in 1..Len(music_dirs) : StartsWith(songs[i], music_dirs[j])

C14_RemoveDirectoryOutOfRange ==
    [][ (last'.op = "remove_directory" /\ last'.arg >= Len(music_dirs)) =>
           /\ last'.res = "err"
           /\ ctl' = "running"
           /\ UNCHANGED <<songs, music_dirs, current_index, is_playing,
                          queue, volume, channel>>
      ]_vars

\* C14 witness: remove_directory was called with the position
\* len(music_dirs) while playing, with a directory listed, songs in the
\* library and an entry queued.
C14_Witness ==
    /\ last.op = "remove_directory"
    /\ last.res = "err"
    /\ last.arg = Len(music_dirs)
    /\ music_dirs # <<>>
    /\ songs # <<>>
    /\ queue # <<>>
    /\ is_playing

\* C15: from any library state and for any valid i, remove_directory(i)
\* followed by an add_directory of the same path that walks the unchanged
\* file system to its end leaves songs whose set of paths is the set before
\* the removal, with no path twice.  The songs after the two calls are
\* those remove_directory retains followed by those the walk finds.
C15_RemoveThenAddRestores ==
    \A index \in 0..(Len(music_dirs) - 1) :
        LET dir == music_dirs[index + 1]
            after == Retain(songs, dir) \o Walk(dir)
        IN /\ {after[i] : i \in 1..Len(after)}
                 = {songs[i] : i \in 1..Len(songs)}
           /\ \A i, j \in 1..Len(after) : after[i] = after[j] => i = j

\* C16: once the worker has processed Quit it processes no further
\* command: processing Quit leaves the receive loop, and from then on
\* no step of the worker is possible and the sink, the remembered volume
\* and the channel stay as they are.
C16_NothingAfterQuit ==
    /\ [] (wpc = "exited" =>
              /\ ~ENABLED WorkerRecv
              /\ ~ENABLED (\E decodes \in BOOLEAN : WorkerOpen(decodes))
              /\ ~ENABLED SinkEnds)
    /\ [][ /\ last'.op = "worker_Quit" => wpc' = "exited"
           /\ wpc = "exited" =>
                 UNCHANGED <<wpc, sink, current_volume, streams, channel>>
         ]_vars

\* C16 witness: the worker processed Quit while a stream was sounding and
\* has left its loop.
C16_Witness ==
    /\ last = Did("worker_Quit", 1, "ok")
    /\ wpc = "exited"

\* C17: with the worker scheduled fairly, once the control thread has sent
\* Quit the worker eventually leaves its receive loop by processing it
\* (having processed every command sent before it).
C17_WorkerExitsAfterQuit ==
    (ctl = "quit") ~> (wpc = "exited")

\* C18: when the file of a Play cannot be opened or decoded, nothing plays
\* afterwards: the sink held before was stopped and dropped when the Play
\* was taken, and no new sink is made; the worker is back at its receive
\* and takes the next command when there is one; and the control thread's
\* state, is_playing and the cursor included, is as it was.
C18_FailedPlayIsSilent ==
    /\ [] (last = Did("worker_open", 0, "err") =>
              (channel # <<>> => ENABLED WorkerRecv))
    /\ [][ /\ last'.op = "worker_Play" =>
                 (sink' = None /\ streams' = 0 /\ wpc' = "open")
           /\ last' = Did("worker_open", 0, "err") =>
                 /\ wpc = "open"
                 /\ sink' = None
                 /\ streams' = 0
                 /\ wpc' = "recv"
                 /\ UNCHANGED <<player, ctl, channel, current_volume>>
         ]_vars

\* C18 witness: a Play has failed to open while the control thread has
\* is_playing set and another command waits in the channel.
C18_Witness ==
    /\ last = Did("worker_open", 0, "err")
    /\ is_playing
    /\ sink = None
    /\ channel # <<>>

\* C19: search(query) with the empty query returns the empty result, not
\* every song, whatever the library is.
C19_EmptyQueryFindsNothing ==
    search_input = <<>> => Search(songs, search_input) = <<>>

\* C19, as it holds: the Search view lists nothing while the search input
\* is empty, whatever the library is, because it does not call search
\* then; search itself, called with the empty query, returns every
\* position of the library, in order.
C19_SearchViewEmptyInput ==
    /\ [] (Search(songs, <<>>) = [i \in 1..Len(songs) |-> i - 1])
    /\ [][ ( /\ last'.op = "draw"
             /\ last'.res = "ok"
             /\ view_mode = "Search"
             /\ search_input = <<>> )
           => content' = <<>>
         ]_vars

\* C19 witness: the Search view has been drawn in search mode with the
\* empty input over a library of two songs, and lists nothing.
C19_Witness ==
    /\ last = Did("draw", 0, "ok")
    /\ view_mode = "Search"
    /\ search_mode
    /\ search_input = <<>>
    /\ Len(songs) = 2
    /\ content = <<>>

\* C20: the Albums view lists each album of the library exactly once,
\* with one artist: the artist of the first song of that album in sorted
\* (album, artist) order, also when songs of one album have different
\* artists.
C20_AlbumsListedOnce ==
    (last = Did("draw", 0, "ok") /\ view_mode = "Albums") =>
        \A i \in 1..Len(songs) :
            LET album == Meta(songs[i]).album
                rows == {r \in 1..Len(content) : content[r][1] = album}
            IN /\ Cardinality(rows) = 1
               /\ \A r \in rows, j \in 1..Len(songs) :
                     Meta(songs[j]).album = album =>
                        StrCmp(content[r][2], Meta(songs[j]).artist) <= 0

\* C21: every sink the worker creates for a Play that opens and decodes
\* starts, playing, at the volume of the SetVolume processed last (1.0
\* when none was); processing SetVolume(vol) makes vol the remembered
\* volume and the volume of the sink held, if one is held; and nothing
\* else changes the remembered volume.
C21_NewSinkAtRememberedVolume ==
    /\ current_volume = VolOne
    /\ [][ /\ last' = Did("worker_open", 0, "ok") =>
                 /\ sink' # None
                 /\ sink'[1].volume = current_volume
                 /\ sink'[1].state = "playing"
                 /\ sink'[1].path = wpath
           /\ last'.op = "worker_SetVolume" =>
                 /\ channel # <<>>
                 /\ current_volume' = Head(channel).vol
                 /\ (sink = None) = (sink' = None)
                 /\ sink # None => sink'[1].volume = Head(channel).vol
           /\ current_volume' # current_volume =>
                 last'.op = "worker_SetVolume"
         ]_vars

\* C21 witness: a sink has just been created, after a SetVolume below 1.0
\* was processed, and starts at that volume.
C21_Witness ==
    /\ last = Did("worker_open", 0, "ok")
    /\ current_volume < VolOne
    /\ sink # None
    /\ sink[1].volume = current_volume

\* C22: processing Stop stops the sink held and keeps the handle: the
\* worker then holds the same sink, stopped, and a later SetVolume is
\* applied to it; with no sink held Stop changes nothing of the worker;
\* and the worker lets go of a sink only when a Play replaces it (or when
\* the thread ends on Quit).
C22_StopKeepsHandle ==
    [][ /\ last'.op = "worker_Stop" =>
             /\ UNCHANGED <<wpc, wpath, current_volume>>
             /\ IF sink = None
                THEN sink' = None /\ streams' = streams
                ELSE /\ sink' # None
                     /\ sink'[1].path = sink[1].path
                     /\ sink'[1].volume = sink[1].volume
                     /\ sink'[1].state = "stopped"
                     /\ streams' = 0
        /\ ( /\ last'.op = "worker_SetVolume"
             /\ sink # None
             /\ sink[1].state = "stopped" )
           => sink' = Some([sink[1] EXCEPT !.volume = Head(channel).vol])
        /\ (sink # None /\ sink' = None) =>
             last'.op \in {"worker_Play", "worker_Quit"}
      ]_vars

\* C22 witness: a SetVolume below 1.0 has been applied to a sink that a
\* Stop had stopped before and that the worker still holds.
C22_Witness ==
    /\ last.op = "worker_SetVolume"
    /\ sink # None
    /\ sink[1].state = "stopped"
    /\ sink[1].volume < VolOne
    /\ sink[1].volume = current_volume

\* C23: every position stored in the queue is a valid index into songs,
\* whatever add_to_queue, next, shuffle, add_directory and
\* remove_directory calls came before (the queue rendering indexes songs
\* with each entry unchecked).
C23_QueueEntriesValid ==
    ctl = "running" => \A i \in 1..Len(queue) : queue[i] < Len(songs)

\* C24: whenever the worker has processed every command the control
\* thread has sent, and Quit has not been sent, the worker's remembered
\* volume and the volume of the sink it holds, if any, are the control
\* thread's volume.
C24_VolumesAgreeWhenIdle ==
    (ctl = "running" /\ channel = <<>> /\ wpc = "recv") =>
        /\ current_volume = volume
        /\ sink # None => sink[1].volume = volume

\* C24 witness: the worker has just processed the last command sent, a
\* SetVolume, while holding a sink, and the three volumes are the same
\* value below 1.0.
C24_Witness ==
    /\ ctl = "running"
    /\ channel = <<>>
    /\ wpc = "recv"
    /\ last.op = "worker_SetVolume"
    /\ volume < VolOne
    /\ sink # None
    /\ sink[1].volume = volume
    /\ current_volume = volume

\* C25: whenever is_playing is false and the worker has processed every
\* command the control thread has sent, the worker holds no sink that is
\* playing: it holds none, or one that was stopped or has run out, and
\* nothing sounds.
C25_NotPlayingMeansSilent ==
    (~is_playing /\ channel = <<>> /\ wpc = "recv") =>
        /\ sink # None => sink[1].state # "playing"
        /\ streams = 0

\* C25 witness: after a Play and a stop(), the worker has processed the
\* Stop, nothing is left in the channel, and it holds the stopped sink.
C25_Witness ==
    /\ ~is_playing
    /\ channel = <<>>
    /\ wpc = "recv"
    /\ last.op = "worker_Stop"
    /\ last.arg = 1
    /\ sink # None
    /\ sink[1].state = "stopped"

=============================================================================
